---- MODULE Spec2Model ----
(***************************************************************************)
(* Model of the IR analyzer backend: the annotation client                 *)
(* (analysis_engine.py), the persistence layer (database.py) and the two   *)
(* upload pipelines (main.py upload_document, main_audio.py                *)
(* upload_audio_document).                                                 *)
(***************************************************************************)
EXTENDS Integers, Sequences, FiniteSets, TLC

(***************************************************************************)
(* JSON values as Python's json module produces them.  Every value is a    *)
(* tagged record; an object is a function from its keys to values.         *)
(***************************************************************************)
JNull == [t |-> "null"]

JBool(b) == [t |-> "bool", b |-> b]

JInt(n) == [t |-> "int", i |-> n]

JReal(lit) == [t |-> "real", r |-> lit]

JStr(s) == [t |-> "str", s |-> s]

JArr(a) == [t |-> "arr", a |-> a]

JObj(o) == [t |-> "obj", o |-> o]

EmptyMap == [k \in {} |-> JNull]

(***************************************************************************)
(* The text the backend generates, as a sequence of lexical tokens.        *)
(* A word is a run of letters outside quotes: only null, true and false    *)
(* are JSON.                                                               *)
(***************************************************************************)
P(c) == [k |-> "punct", c |-> c]

S(s) == [k |-> "string", s |-> s]

N(n) == [k |-> "number", n |-> n]

R(lit) == [k |-> "real", r |-> lit]

W(w) == [k |-> "word", w |-> w]

IsP(tok, c) == tok.k = "punct" /\ tok.c = c

ParseFail == [ok |-> FALSE, v |-> JNull, n |-> 0]

ParseOk(v, n) == [ok |-> TRUE, v |-> v, n |-> n]

RECURSIVE ParseValue(_, _)
RECURSIVE ParseMembers(_, _, _)
RECURSIVE ParseElements(_, _, _)

\* One "key": value pair at position i, then "," and more pairs, or "}".
\* A repeated key keeps the last value, as Python's dict does.
ParseMembers(ts, i, acc) ==
    IF i + 1 > Len(ts) \/ ts[i].k # "string" \/ ~IsP(ts[i + 1], ":")
    THEN ParseFail
    ELSE LET r == ParseValue(ts, i + 2) IN
         IF ~r.ok \/ r.n > Len(ts) THEN ParseFail
         ELSE LET obj == (ts[i].s :> r.v) @@ acc IN
              IF IsP(ts[r.n], "}") THEN ParseOk(JObj(obj), r.n + 1)
              ELSE IF IsP(ts[r.n], ",") THEN ParseMembers(ts, r.n + 1, obj)
              ELSE ParseFail

\* One element at position i, then "," and more elements, or "]".
ParseElements(ts, i, acc) ==
    LET r == ParseValue(ts, i) IN
    IF ~r.ok \/ r.n > Len(ts) THEN ParseFail
    ELSE LET arr == Append(acc, r.v) IN
         IF IsP(ts[r.n], "]") THEN ParseOk(JArr(arr), r.n + 1)
         ELSE IF IsP(ts[r.n], ",") THEN ParseElements(ts, r.n + 1, arr)
         ELSE ParseFail

ParseValue(ts, i) ==
    IF i > Len(ts) THEN ParseFail
    ELSE LET tok == ts[i] IN
         CASE tok.k = "string" -> ParseOk(JStr(tok.s), i + 1)
           [] tok.k = "number" -> ParseOk(JInt(tok.n), i + 1)
           [] tok.k = "real" -> ParseOk(JReal(tok.r), i + 1)
           [] tok.k = "word" ->
                CASE tok.w = "null" -> ParseOk(JNull, i + 1)
                  [] tok.w = "true" -> ParseOk(JBool(TRUE), i + 1)
                  [] tok.w = "false" -> ParseOk(JBool(FALSE), i + 1)
                  [] OTHER -> ParseFail
           [] IsP(tok, "{") ->
                IF i + 1 <= Len(ts) /\ IsP(ts[i + 1], "}")
                THEN ParseOk(JObj(EmptyMap), i + 2)
                ELSE ParseMembers(ts, i + 1, EmptyMap)
           [] IsP(tok, "[") ->
                IF i + 1 <= Len(ts) /\ IsP(ts[i + 1], "]")
                THEN ParseOk(JArr(<<>>), i + 2)
                ELSE ParseElements(ts, i + 1, <<>>)
           [] OTHER -> ParseFail

\* json.loads: the whole text must be one value; anything else raises
\* JSONDecodeError (ok = FALSE).
json_loads(ts) ==
    LET r == ParseValue(ts, 1) IN
    IF r.ok /\ r.n = Len(ts) + 1 THEN [ok |-> TRUE, v |-> r.v]
    ELSE [ok |-> FALSE, v |-> JNull]


(***************************************************************************)
(* Python's subscript and dict.get on a parsed value.  value["key"] raises *)
(* KeyError on an object without the key and TypeError on anything that is *)
(* not an object; value.get raises AttributeError on a non-object.         *)
(***************************************************************************)
Subscript(v, key) ==
    IF v.t = "obj" /\ key \in DOMAIN v.o
    THEN [raised |-> FALSE, v |-> v.o[key]]
    ELSE [raised |-> TRUE, v |-> JNull]

DictGet(v, key, default) ==
    IF v.t # "obj" THEN [raised |-> TRUE, v |-> JNull]
    ELSE IF key \in DOMAIN v.o THEN [raised |-> FALSE, v |-> v.o[key]]
    ELSE [raised |-> FALSE, v |-> default]

\* text[:n]
Slice(text, n) == SubSeq(text, 1, IF Len(text) < n THEN Len(text) ELSE n)

SectionPreviewLen == 500

(***************************************************************************)
(* Replies of the annotation backend to POST /generate.  A reply is either *)
(* a transport outcome or the name of a generated text.                    *)
(***************************************************************************)
RECURSIVE Join(_)
Join(parts) ==
    IF Len(parts) = 0 THEN <<>>
    ELSE IF Len(parts) = 1 THEN parts[1]
    ELSE parts[1] \o <<P(",")>> \o Join(Tail(parts))

TPair(key, val) == <<S(key), P(":")>> \o val

TObj(pairs) == <<P("{")>> \o Join(pairs) \o <<P("}")>>

TArr(elems) == <<P("[")>> \o Join(elems) \o <<P("]")>>

ScoreNames ==
    <<"sentiment_score", "confidence_score", "clarity_score",
      "readability_score", "specificity_score">>

\* The five score fields with the given values.
TScores(vals) == [i \in 1..5 |-> TPair(ScoreNames[i], <<N(vals[i])>>)]

\* The document-level shape the prompt asks for.
TDocument(label, vals) ==
    TObj(<<TPair("overall_sentiment", <<S(label)>>)>> \o TScores(vals) \o
         << TPair("key_themes", TArr(<< <<S("growth")>>, <<S("guidance")>> >>)),
            TPair("emotional_tone",
                  TObj(<< TPair("positive", <<N(60)>>), TPair("negative", <<N(10)>>),
                          TPair("neutral", <<N(30)>>), TPair("confident", <<N(70)>>),
                          TPair("uncertain", <<N(20)>>) >>)),
            TPair("linguistic_metrics",
                  TObj(<< TPair("avgSentenceLength", <<R("18.5")>>),
                          TPair("complexWordRatio", <<R("0.2")>>),
                          TPair("passiveVoiceRatio", <<R("0.1")>>),
                          TPair("jargonDensity", <<R("0.3")>>),
                          TPair("hedgingLanguage", <<R("0.05")>>) >>)) >>)

\* One entry of the section-array shape the prompt asks for.
TSection(title, vals) ==
    TObj(<< TPair("section_title", <<S(title)>>),
            TPair("section_type", <<S("other")>>),
            TPair("speaker", <<W("null")>>),
            TPair("original_text", <<S("excerpt")>>) >> \o TScores(vals) \o
         << TPair("issues", TArr(<< <<S("hedging")>> >>)),
            TPair("suggested_revision", <<S("revision")>>),
            TPair("revision_rationale", <<S("rationale")>>) >>)

\* The character U+D800 on its own, as json.loads of the HTTP body yields
\* it for the escape \ud800: a str that no UTF-8 stream can encode.
LoneSurrogate == "U+D800"

ResponseText(name) ==
    CASE name = "doc_valid" ->
            TDocument("positive", <<70, 65, 80, 55, 60>>)
      [] name = "doc_out_of_range" ->
            TDocument("positive", <<150, 65, 80, 55, 0 - 5>>)
      [] name = "doc_missing_field" ->
            TObj(<< TPair("overall_sentiment", <<S("positive")>>),
                    TPair("sentiment_score", <<N(70)>>) >>)
      [] name = "doc_empty_object" -> TObj(<<>>)
      [] name = "doc_in_array" ->
            TArr(<< TDocument("positive", <<70, 65, 80, 55, 60>>) >>)
      [] name = "number" -> <<N(50)>>
      [] name = "null" -> <<W("null")>>
      [] name = "prose" -> <<W("Sorry"), W("no"), W("analysis")>>
      [] name = "prose_surrogate" -> <<W("Sorry"), W(LoneSurrogate)>>
      [] name = "truncated" ->
            <<P("{"), S("overall_sentiment"), P(":"), S("positive"), P(",")>>
      [] name = "trailing_text" ->
            TDocument("positive", <<70, 65, 80, 55, 60>>) \o <<W("Done")>>
      [] name = "empty" -> <<>>
      [] name = "sec_valid" ->
            TObj(<< TPair("sections",
                          TArr(<< TSection("Introduction", <<70, 65, 80, 55, 60>>),
                                  TSection("Outlook", <<40, 45, 50, 55, 35>>) >>)) >>)
      [] name = "sec_out_of_range" ->
            TObj(<< TPair("sections",
                          TArr(<< TSection("Introduction", <<70, 65, 80, 55, 101>>) >>)) >>)
      [] name = "sec_no_field" ->
            TObj(<< TPair("analysis", <<S("none")>>) >>)
      [] name = "sec_in_array" ->
            TArr(<< TSection("Introduction", <<70, 65, 80, 55, 60>>) >>)
      [] name = "sec_bad_entry" ->
            TObj(<< TPair("sections",
                          TArr(<< TSection("Introduction", <<70, 65, 80, 55, 60>>),
                                  TObj(<< TPair("section_title", <<S("Outlook")>>) >>) >>)) >>)
      [] name = "sec_not_list" ->
            TObj(<< TPair("sections", <<N(5)>>) >>)

TextReplies ==
    {"doc_valid", "doc_out_of_range", "doc_missing_field", "doc_empty_object",
     "doc_in_array", "number", "null", "prose", "prose_surrogate", "truncated",
     "trailing_text",
     "empty", "sec_valid", "sec_out_of_range", "sec_no_field", "sec_in_array",
     "sec_bad_entry", "sec_not_list"}

\* requests.post raised, the status was not 200, or the body had no
\* "response" field.
TransportReplies == {"connection_error", "timeout", "http_500", "no_response_field"}

Replies == TextReplies \cup TransportReplies

\* call_ollama: the generated text, or an exception.
call_ollama(model, reply) ==
    CASE reply \in {"connection_error", "timeout", "http_500"} ->
            [raised |-> TRUE, text |-> <<>>]
      [] reply = "no_response_field" -> [raised |-> FALSE, text |-> <<>>]
      [] OTHER -> [raised |-> FALSE, text |-> ResponseText(reply)]

get_default_analysis ==
    JObj([overall_sentiment |-> JStr("neutral"),
          sentiment_score |-> JInt(50),
          confidence_score |-> JInt(50),
          clarity_score |-> JInt(50),
          readability_score |-> JInt(50),
          specificity_score |-> JInt(50),
          key_themes |-> JArr(<<JStr("Analysis unavailable")>>),
          emotional_tone |->
              JObj([positive |-> JInt(33), negative |-> JInt(33),
                    neutral |-> JInt(34), confident |-> JInt(50),
                    uncertain |-> JInt(50)]),
          linguistic_metrics |->
              JObj([avgSentenceLength |-> JReal("20.0"),
                    complexWordRatio |-> JReal("0.3"),
                    passiveVoiceRatio |-> JReal("0.2"),
                    jargonDensity |-> JReal("0.25"),
                    hedgingLanguage |-> JReal("0.15")])])

get_default_sections(text) ==
    JArr(<< JObj([section_title |-> JStr("Full Document"),
                  section_type |-> JStr("other"),
                  speaker |-> JNull,
                  original_text |-> [t |-> "text", x |-> Slice(text, SectionPreviewLen)],
                  sentiment_score |-> JInt(50),
                  confidence_score |-> JInt(50),
                  clarity_score |-> JInt(50),
                  readability_score |-> JInt(50),
                  specificity_score |-> JInt(50),
                  issues |-> JArr(<<JStr("Analysis unavailable - check Ollama connection")>>),
                  suggested_revision |->
                      JStr("Unable to generate suggestions. Please ensure Ollama is running and a model is available."),
                  revision_rationale |->
                      JStr("Analysis requires a working Ollama installation with downloaded models.")]) >>)

\* print(f"Response was: {response_text[:500]}") in the JSONDecodeError
\* handlers: writing to standard output raises UnicodeEncodeError when the
\* printed part of the text holds a character the stream cannot encode.
ResponsePreviewLen == 500

print_raises(response_text) ==
    \E i \in DOMAIN Slice(response_text, ResponsePreviewLen) :
        response_text[i] = W(LoneSurrogate)

\* The except clauses of the two functions, in order.  An exception raised
\* inside a handler is not caught by a sibling handler.
ExceptClauses == <<"JSONDecodeError", "Exception">>

\* Does the exception class match one of the except clauses?
Caught(class, clauses) ==
    \E i \in DOMAIN clauses : clauses[i] = class \/ clauses[i] = "Exception"

\* The try statement of analyze_document_content / analyze_sections_content:
\* TRUE when an exception leaves the function.  is_sections tells whether
\* the body ends with result.get("sections", []).
ClientRaises(model, reply, is_sections, clauses) ==
    LET c == call_ollama(model, reply) IN
    IF c.raised THEN ~Caught("Exception", clauses)
    ELSE LET p == json_loads(c.text) IN
         IF ~p.ok
         THEN \/ ~Caught("JSONDecodeError", clauses)
              \/ print_raises(c.text)
         ELSE /\ is_sections
              /\ DictGet(p.v, "sections", JArr(<<>>)).raised
              /\ ~Caught("AttributeError", clauses)

analyze_document_content_raises(text, model, reply) ==
    ClientRaises(model, reply, FALSE, ExceptClauses)

analyze_sections_content_raises(text, model, reply) ==
    ClientRaises(model, reply, TRUE, ExceptClauses)

\* analyze_document_content answering with the default whatever it parsed.
analyze_document_content_default_only(text, model, reply) == get_default_analysis

\* The value analyze_document_content returns: the parsed reply, whatever
\* its shape, or the default when the call or the parse raised.
analyze_document_content(text, model, reply) ==
    LET c == call_ollama(model, reply) IN
    IF c.raised THEN get_default_analysis
    ELSE LET p == json_loads(c.text) IN
         IF p.ok THEN p.v ELSE get_default_analysis

\* The value analyze_sections_content returns: result.get("sections", []),
\* or the default when the call, the parse or the .get raised.
analyze_sections_content(text, model, reply) ==
    LET c == call_ollama(model, reply) IN
    IF c.raised THEN get_default_sections(text)
    ELSE LET p == json_loads(c.text) IN
         IF ~p.ok THEN get_default_sections(text)
         ELSE LET g == DictGet(p.v, "sections", JArr(<<>>)) IN
              IF g.raised THEN get_default_sections(text) ELSE g.v

(***************************************************************************)
(* json.dumps, as the persistence layer uses it for its JSON columns.      *)
(***************************************************************************)
RECURSIVE KeySeq(_)
KeySeq(keys) ==
    IF keys = {} THEN <<>>
    ELSE LET k == CHOOSE e \in keys : TRUE IN <<k>> \o KeySeq(keys \ {k})

RECURSIVE json_dumps(_)
json_dumps(v) ==
    CASE v.t = "null" -> <<W("null")>>
      [] v.t = "bool" -> <<W(IF v.b THEN "true" ELSE "false")>>
      [] v.t = "int" -> <<N(v.i)>>
      [] v.t = "real" -> <<R(v.r)>>
      [] v.t = "str" -> <<S(v.s)>>
      [] v.t = "arr" -> TArr([i \in DOMAIN v.a |-> json_dumps(v.a[i])])
      [] v.t = "obj" ->
            LET ks == KeySeq(DOMAIN v.o) IN
            TObj([i \in DOMAIN ks |-> TPair(ks[i], json_dumps(v.o[ks[i]]))])

\* sqlite3 binds None, bool, int, float and str; a list or a dict as a
\* parameter raises.
Bindable(v) == v.t \in {"null", "bool", "int", "real", "str", "text"}

(***************************************************************************)
(* Persistence layer (database.py).  A table is the sequence of its rows   *)
(* in insertion order; AUTOINCREMENT gives row i the id i.                 *)
(***************************************************************************)
create_document(rows, title, document_type, file_path) ==
    Append(rows, [id |-> Len(rows) + 1, title |-> title,
                  document_type |-> document_type, file_path |-> file_path,
                  status |-> "uploading"])

\* get_document finding a row for every id.
get_document_any(rows, document_id) ==
    {[id |-> document_id, title |-> "", document_type |-> "other",
      file_path |-> "", status |-> "uploading"]}

get_document(rows, document_id) ==
    {rows[i] : i \in {j \in DOMAIN rows : rows[j].id = document_id}}

\* update_document_status rewriting the row instead of its status column:
\* the title is lost.
update_document_status_replacing(rows, document_id, status) ==
    [i \in DOMAIN rows |->
        IF rows[i].id = document_id
        THEN [rows[i] EXCEPT !.status = status, !.title = ""]
        ELSE rows[i]]

update_document_status(rows, document_id, status) ==
    [i \in DOMAIN rows |->
        IF rows[i].id = document_id THEN [rows[i] EXCEPT !.status = status]
        ELSE rows[i]]

\* create_analysis storing the new row's own id in document_id.
create_analysis_wrong_link(rows, document_id, overall_sentiment, scores, key_themes, emotional_tone, linguistic_metrics) ==
    Append(rows, [id |-> Len(rows) + 1, document_id |-> Len(rows) + 1,
                  overall_sentiment |-> overall_sentiment,
                  sentiment_score |-> scores[1],
                  confidence_score |-> scores[2],
                  clarity_score |-> scores[3],
                  readability_score |-> scores[4],
                  specificity_score |-> scores[5],
                  key_themes |-> json_dumps(key_themes),
                  emotional_tone |-> json_dumps(emotional_tone),
                  linguistic_metrics |-> json_dumps(linguistic_metrics)])

\* create_analysis executing its INSERT twice.
create_analysis_twice(rows, document_id, overall_sentiment, scores, key_themes, emotional_tone, linguistic_metrics) ==
    LET row == [id |-> 0, document_id |-> document_id,
                overall_sentiment |-> overall_sentiment,
                sentiment_score |-> scores[1],
                confidence_score |-> scores[2],
                clarity_score |-> scores[3],
                readability_score |-> scores[4],
                specificity_score |-> scores[5],
                key_themes |-> json_dumps(key_themes),
                emotional_tone |-> json_dumps(emotional_tone),
                linguistic_metrics |-> json_dumps(linguistic_metrics)]
    IN rows \o <<[row EXCEPT !.id = Len(rows) + 1], [row EXCEPT !.id = Len(rows) + 2]>>

create_analysis(rows, document_id, overall_sentiment, scores, key_themes, emotional_tone, linguistic_metrics) ==
    Append(rows, [id |-> Len(rows) + 1, document_id |-> document_id,
                  overall_sentiment |-> overall_sentiment,
                  sentiment_score |-> scores[1],
                  confidence_score |-> scores[2],
                  clarity_score |-> scores[3],
                  readability_score |-> scores[4],
                  specificity_score |-> scores[5],
                  key_themes |-> json_dumps(key_themes),
                  emotional_tone |-> json_dumps(emotional_tone),
                  linguistic_metrics |-> json_dumps(linguistic_metrics)])

\* SELECT * FROM analyses WHERE document_id = ? ; fetchone(): the first
\* matching row in rowid order, with its JSON columns parsed; the empty
\* sequence stands for None.
get_analysis_by_document_id(rows, document_id) ==
    LET hits == {j \in DOMAIN rows : rows[j].document_id = document_id} IN
    IF hits = {} THEN <<>>
    ELSE LET j == CHOOSE h \in hits : \A o \in hits : h <= o IN
         << [rows[j] EXCEPT
                !.key_themes = json_loads(rows[j].key_themes).v,
                !.emotional_tone = json_loads(rows[j].emotional_tone).v,
                !.linguistic_metrics = json_loads(rows[j].linguistic_metrics).v] >>

\* create_section numbering the sections from 1.
create_section_from_one(rows, analysis_id, section_title, section_type, speaker, original_text, scores, issues, suggested_revision, revision_rationale, order) ==
    Append(rows, [id |-> Len(rows) + 1, analysis_id |-> analysis_id,
                  section_title |-> section_title,
                  section_type |-> section_type,
                  speaker |-> speaker,
                  original_text |-> original_text,
                  sentiment_score |-> scores[1],
                  confidence_score |-> scores[2],
                  clarity_score |-> scores[3],
                  readability_score |-> scores[4],
                  specificity_score |-> scores[5],
                  issues |-> json_dumps(issues),
                  suggested_revision |-> suggested_revision,
                  revision_rationale |-> revision_rationale,
                  section_order |-> order + 1])

create_section(rows, analysis_id, section_title, section_type, speaker, original_text, scores, issues, suggested_revision, revision_rationale, order) ==
    Append(rows, [id |-> Len(rows) + 1, analysis_id |-> analysis_id,
                  section_title |-> section_title,
                  section_type |-> section_type,
                  speaker |-> speaker,
                  original_text |-> original_text,
                  sentiment_score |-> scores[1],
                  confidence_score |-> scores[2],
                  clarity_score |-> scores[3],
                  readability_score |-> scores[4],
                  specificity_score |-> scores[5],
                  issues |-> json_dumps(issues),
                  suggested_revision |-> suggested_revision,
                  revision_rationale |-> revision_rationale,
                  section_order |-> order])

\* ORDER BY section_order; rows with equal keys stay in rowid order.
RECURSIVE OrderBySectionOrder(_)
OrderBySectionOrder(rows) ==
    IF rows = <<>> THEN <<>>
    ELSE LET m == CHOOSE i \in DOMAIN rows :
                      \A j \in DOMAIN rows :
                          \/ rows[i].section_order < rows[j].section_order
                          \/ rows[i].section_order = rows[j].section_order /\ i <= j
         IN <<rows[m]>> \o
            OrderBySectionOrder([k \in 1..(Len(rows) - 1) |->
                                    IF k < m THEN rows[k] ELSE rows[k + 1]])

\* SELECT * FROM sections WHERE analysis_id = ? ORDER BY section_order,
\* with issues parsed by json.loads.
get_sections_by_analysis_id(rows, analysis_id) ==
    LET found == OrderBySectionOrder(
                     SelectSeq(rows, LAMBDA row : row.analysis_id = analysis_id))
    IN [k \in DOMAIN found |->
           [found[k] EXCEPT !.issues = json_loads(found[k].issues).v]]

\* create_metrics recording neutral scores instead of the analysis scores.
create_metrics_neutral(rows, document_id, analysis_id, document_type, scores) ==
    Append(rows, [id |-> Len(rows) + 1, document_id |-> document_id,
                  analysis_id |-> analysis_id,
                  document_type |-> document_type,
                  sentiment_score |-> JInt(50),
                  confidence_score |-> JInt(50),
                  clarity_score |-> JInt(50),
                  readability_score |-> JInt(50),
                  specificity_score |-> JInt(50)])

create_metrics(rows, document_id, analysis_id, document_type, scores) ==
    Append(rows, [id |-> Len(rows) + 1, document_id |-> document_id,
                  analysis_id |-> analysis_id,
                  document_type |-> document_type,
                  sentiment_score |-> scores[1],
                  confidence_score |-> scores[2],
                  clarity_score |-> scores[3],
                  readability_score |-> scores[4],
                  specificity_score |-> scores[5]])

\* The request's document_ids (List[int]) as the value json.dumps receives.
IdsJson(document_ids) == JArr([i \in DOMAIN document_ids |-> JInt(document_ids[i])])

\* create_comparison storing the ids in reverse order.
create_comparison_reversed(rows, seq, title, description, document_ids) ==
    Append(rows, [id |-> seq + 1, title |-> title, description |-> description,
                  document_ids |->
                      json_dumps(IdsJson([i \in DOMAIN document_ids |->
                          document_ids[Len(document_ids) + 1 - i]]))])

\* INSERT INTO comparisons: the AUTOINCREMENT id is one more than the
\* largest id ever given (seq), and document_ids is stored as JSON text.
create_comparison(rows, seq, title, description, document_ids) ==
    Append(rows, [id |-> seq + 1, title |-> title, description |-> description,
                  document_ids |-> json_dumps(IdsJson(document_ids))])

\* SELECT * FROM comparisons WHERE id = ? ; fetchone(), document_ids parsed
\* with json.loads; the empty sequence stands for None.
get_comparison(rows, comparison_id) ==
    LET hits == {j \in DOMAIN rows : rows[j].id = comparison_id} IN
    IF hits = {} THEN <<>>
    ELSE LET row == rows[CHOOSE j \in hits : \A k \in hits : j <= k] IN
         << [row EXCEPT !.document_ids = json_loads(row.document_ids).v] >>

\* DELETE FROM comparisons WHERE id = ?
delete_comparison(rows, comparison_id) ==
    SelectSeq(rows, LAMBDA row : row.id # comparison_id)

(***************************************************************************)
(* Bounds of the model and the inputs the environment draws from.          *)
(***************************************************************************)
MaxUploads == 2

MaxStorageFaults == 1

Requests == 1..MaxUploads

ValidTypes == {"press_release", "earnings_call", "corporate_release", "other"}

TextExtensions == {".pdf", ".txt", ".doc", ".docx"}

AudioExtensions == {".mp3", ".wav", ".m4a", ".ogg", ".flac", ".webm", ".mp4"}

DocumentTypeInputs == {"other", "memo"}

\* The size caps, in MB: validate_file_size and validate_audio_file.
MaxDocumentMb == 10

MaxAudioMb == 100

\* Uploaded files: name, extension and size in MB.
TextFileInputs ==
    {[stem |-> "report", ext |-> ".txt", mb |-> 1],
     [stem |-> "report", ext |-> ".exe", mb |-> 1],
     [stem |-> "annual", ext |-> ".txt", mb |-> MaxDocumentMb + 1]}

AudioFileInputs ==
    {[stem |-> "call", ext |-> ".MP3", mb |-> 1],
     [stem |-> "call", ext |-> ".txt", mb |-> 1],
     [stem |-> "webcast", ext |-> ".mp3", mb |-> MaxAudioMb + 1]}

ModelInputs == {"llama3.2", "mistral"}

\* The models the backend lists as installed.
InstalledModels == {"llama3.2"}

\* Outcomes of GET /tags.
TagsReplies == {"ok", "connection_error"}

\* Replies to the two POST /generate calls of one pipeline run.
PipelineDocReplies ==
    {"doc_valid", "doc_out_of_range", "doc_missing_field", "prose", "prose_surrogate",
     "connection_error"}

PipelineSecReplies ==
    {"sec_valid", "sec_no_field", "sec_bad_entry", "prose", "connection_error"}

ExtractOutcomes == {"ok", "raises"}

TranscribeOutcomes ==
    {"ok", "invalid_audio", "backend_unavailable", "backend_error"}

\* The uploaded bytes and what the speech model hears in them.
UploadContent == <<"q", "3">>

Transcript == <<"h", "i">>

\* The body of each upload request: the first request sends UploadContent
\* or a recording of Transcript, a later one a shorter body of its own.
UploadBody(r, kind) ==
    IF r = 1 THEN (IF kind = "text" THEN UploadContent ELSE Transcript)
    ELSE <<ToString(r)>>

\* The seconds datetime.now() may show while requests arrive.
MaxSecond == 1

\* f"data/uploads/{datetime.now().strftime('%Y%m%d_%H%M%S')}_{file.filename}"
FilePath(stamp, filename) == [stamp |-> stamp, stem |-> filename.stem, ext |-> filename.ext]

\* open(file_path, "wb"): the file is created, or truncated when it exists.
open_wb(fs, file_path) == (file_path :> <<>>) @@ fs

\* f.write(content) on a handle opened at offset 0: the bytes replace the
\* first Len(content) bytes of whatever the file holds by then.
write(fs, file_path, content) ==
    (file_path :> (content \o SubSeq(fs[file_path], Len(content) + 1, Len(fs[file_path])))) @@ fs

\* str.lower() on the extensions the inputs use.
Lower(ext) == IF ext = ".MP3" THEN ".mp3" ELSE ext

\* check_ollama_status reporting the backend available whatever GET /tags did.
check_ollama_status_always_available(reply) ==
    [available |-> TRUE, models |-> InstalledModels]

\* check_ollama_status and get_available_models on an outcome of GET /tags.
check_ollama_status(reply) ==
    IF reply = "ok" THEN [available |-> TRUE, models |-> InstalledModels]
    ELSE [available |-> FALSE, models |-> {}]

\* get_available_models listing every model a client may name.
get_available_models_any(reply) == ModelInputs

get_available_models(reply) == IF reply = "ok" THEN InstalledModels ELSE {}

\* extract_text_from_file on a stored upload: the decoded content of a
\* text file.
extract_text_from_file(content) == content

\* The pause, in seconds, above which detect_speakers_simple assumes a new
\* speaker.
SpeakerGap == 2

\* f"Speaker {speaker_id}"
SpeakerLabel(speaker_id) == "Speaker " \o ToString(speaker_id)

\* The loop of detect_speakers_simple from segment i on: speaker_id and
\* last_end are its two locals, acc the segments already labelled.
RECURSIVE LabelSegments(_, _, _, _, _)
LabelSegments(segments, i, speaker_id, last_end, acc) ==
    IF i > Len(segments) THEN acc
    ELSE LET id == IF segments[i].start - last_end > SpeakerGap
                   THEN speaker_id + 1 ELSE speaker_id
         IN LabelSegments(segments, i + 1, id, segments[i].end,
                          Append(acc, [segments[i] EXCEPT !.speaker = SpeakerLabel(id)]))

\* detect_speakers_simple starting a new speaker at a pause of SpeakerGap
\* or more.
detect_speakers_at_gap(segments) ==
    LET RECURSIVE L(_, _, _, _)
        L(i, speaker_id, last_end, acc) ==
            IF i > Len(segments) THEN acc
            ELSE LET id == IF segments[i].start - last_end >= SpeakerGap
                           THEN speaker_id + 1 ELSE speaker_id
                 IN L(i + 1, id, segments[i].end,
                      Append(acc, [segments[i] EXCEPT !.speaker = SpeakerLabel(id)]))
    IN IF segments = <<>> THEN segments ELSE L(1, 1, 0, <<>>)

\* detect_speakers_simple: speaker_id = 1 and last_end = 0 before the loop.
detect_speakers_simple(segments) ==
    IF segments = <<>> THEN segments
    ELSE LabelSegments(segments, 1, 1, 0, <<>>)

\* validate_file_size: never called by the upload handlers.
validate_file_size(file) == file.mb <= MaxDocumentMb

\* validate_audio_file on a stored upload: the size and extension checks.
validate_audio_file(file) ==
    /\ ~(file.mb > MaxAudioMb)
    /\ Lower(file.ext) \in AudioExtensions

\* transcribe_audio_file returning a dict without the "backend" key.
transcribe_audio_file_no_backend(heard) ==
    JObj([text |-> [t |-> "text", x |-> heard],
          language |-> JStr("en"),
          segments |-> JArr(<<>>),
          model |-> JStr("base"),
          formatted_text |-> [t |-> "text", x |-> heard],
          duration |-> JReal("12.5")])

\* The keys of the dict transcribe_audio_file returns.
transcribe_audio_file(heard) ==
    JObj([text |-> [t |-> "text", x |-> heard],
          language |-> JStr("en"),
          segments |-> JArr(<<>>),
          backend |-> JStr("whisper-local"),
          model |-> JStr("base"),
          formatted_text |-> [t |-> "text", x |-> heard],
          duration |-> JReal("12.5")])

\* What iterating a value yields, or TypeError on a value that is not
\* iterable.  A dict yields its keys and a str its characters, none of
\* which can be subscripted with a field name.
Iterate(v) ==
    CASE v.t = "arr" -> [raised |-> FALSE, items |-> v.a]
      [] v.t = "obj" ->
            [raised |-> FALSE,
             items |-> LET ks == KeySeq(DOMAIN v.o) IN [i \in DOMAIN ks |-> JStr(ks[i])]]
      [] v.t = "str" ->
            [raised |-> FALSE, items |-> IF v.s = "" THEN <<>> ELSE <<JStr(v.s)>>]
      [] OTHER -> [raised |-> TRUE, items |-> <<>>]

\* The five score fields of a result, in ScoreNames order; raised when one
\* is missing.
ScoreArgs(v) ==
    LET got == [i \in 1..5 |-> Subscript(v, ScoreNames[i])] IN
    [raised |-> \E i \in 1..5 : got[i].raised, v |-> [i \in 1..5 |-> got[i].v]]

VARIABLES documents, analyses, sections, metrics_history, req, status_log,
          storage_faults, client, comparisons, comparison_seq, created_ids, api,
          speech, files

vars == <<documents, analyses, sections, metrics_history, req, status_log,
          storage_faults, client, comparisons, comparison_seq, created_ids, api,
          speech, files>>

\* The comparisons table, its AUTOINCREMENT counter, the id list each
\* comparison was created from, and the last comparison request with its
\* answer.
cmp == <<comparisons, comparison_seq, created_ids, api>>

IdleApi == [op |-> "none", arg |-> <<>>, status |-> 0, body |-> JNull]

\* One call of detect_speakers_simple: its argument and what it returned.
IdleSpeech == [state |-> "idle", segments |-> <<>>, result |-> <<>>]

db == <<documents, analyses, sections, metrics_history>>

\* The directory data/uploads: the content of each file by its path.
NoFiles == <<>>

NoFile == [stem |-> "", ext |-> "", mb |-> 0]

NoPath == [stamp |-> 0, stem |-> "", ext |-> ""]

\* How often one request has invoked the transcription backend and the two
\* annotation calls.
NoCalls == [transcribe |-> 0, document |-> 0, sections |-> 0]

IdleReq ==
    [pc |-> "idle", kind |-> "none", document_type |-> "", filename |-> NoFile,
     model |-> "", doc_id |-> 0, text_content |-> <<>>,
     transcription_result |-> JNull, analysis_result |-> JNull,
     analysis_id |-> 0, sections_result |-> JNull, idx |-> 0, response |-> 0,
     fault |-> FALSE, backend |-> "none", raised_in |-> "none",
     status_lost |-> FALSE, doc_reply |-> "", sec_reply |-> "",
     file_path |-> NoPath, calls |-> NoCalls]

IdleClient ==
    [state |-> "idle", fn |-> "", text |-> <<>>, model |-> "", reply |-> "",
     result |-> JNull]

Init ==
    /\ documents = <<>>
    /\ analyses = <<>>
    /\ sections = <<>>
    /\ metrics_history = <<>>
    /\ req = [r \in Requests |-> IdleReq]
    /\ status_log = <<>>
    /\ storage_faults = 0
    /\ client = IdleClient
    /\ comparisons = <<>>
    /\ comparison_seq = 0
    /\ created_ids = <<>>
    /\ api = IdleApi
    /\ speech = IdleSpeech
    /\ files = NoFiles

(***************************************************************************)
(* Request handlers.  Both upload handlers are coroutines on one event     *)
(* loop: a handler gives up control only at "await file.read()", so a      *)
(* handler past that point runs to its end before another one moves.       *)
(***************************************************************************)
Running(q) == req[q].pc \notin {"idle", "await_read", "done"}

MayRun(r) == \A q \in Requests \ {r} : ~Running(q)

\* Whether a write commits (TRUE) or sqlite3 raises (FALSE).
WriteOutcomes == IF storage_faults < MaxStorageFaults THEN {TRUE, FALSE} ELSE {TRUE}

\* Replies that are valid JSON of the document-level shape, and of the
\* section-array shape.
ValidDocReplies == {"doc_valid", "doc_out_of_range"}

ValidSecReplies == {"sec_valid", "sec_out_of_range"}

\* What a request remembers of a reply: the reply when it had the requested
\* shape, nothing otherwise.
WellShaped(reply) ==
    IF reply \in ValidDocReplies \cup ValidSecReplies THEN reply ELSE "other"

\* Backend calls seen by one request: none yet, all unreachable, or some
\* answered.
Heard(prev, reply) ==
    IF reply \in {"connection_error", "timeout"}
    THEN (IF prev = "none" THEN "down" ELSE prev)
    ELSE "up"

\* A handler that, after its exception handler ran, starts the try block
\* again instead of raising the HTTP error.
FinishRetrying(rec, code) ==
    IF code = 500 /\ rec.doc_id # 0
    THEN [rec EXCEPT !.pc = IF rec.kind = "text" THEN "extract" ELSE "mark_transcribing"]
    ELSE [rec EXCEPT !.pc = "done", !.response = code, !.text_content = <<>>,
                     !.transcription_result = JNull, !.analysis_result = JNull,
                     !.sections_result = JNull, !.idx = 0,
                     !.file_path = [stamp |-> 0, stem |-> "", ext |-> ""]]

\* The handler returns or raises an HTTP error; its locals are gone.
Finish(rec, code) ==
    [rec EXCEPT !.pc = "done", !.response = code, !.text_content = <<>>,
                !.transcription_result = JNull, !.analysis_result = JNull,
                !.sections_result = JNull, !.idx = 0, !.file_path = NoPath]

SetStatus(document_id, status) ==
    /\ documents' = update_document_status(documents, document_id, status)
    /\ status_log' = [status_log EXCEPT ![document_id] = Append(@, status)]

\* The second datetime.now() shows to a request that passed validation: the
\* one the newest upload file was stamped with, or a later one.
Stamps ==
    IF DOMAIN files = {} THEN {0}
    ELSE LET latest == CHOOSE s \in 0..MaxSecond :
                           /\ \E p \in DOMAIN files : p.stamp = s
                           /\ \A p \in DOMAIN files : p.stamp <= s
         IN {latest, latest + 1} \cap 0..MaxSecond

\* A handler that reached "with open(file_path, 'wb')" has its file opened.
Opened(rec, stamp) ==
    IF rec.pc = "await_read" THEN open_wb(files, FilePath(stamp, rec.filename))
    ELSE files

\* upload_document up to "await file.read()": validation, the two backend
\* probes, and opening the upload file.
StartText(r) ==
    /\ req[r].pc = "idle"
    /\ \A q \in Requests : q < r => req[q].pc # "idle"
    /\ MayRun(r)
    /\ \E document_type \in DocumentTypeInputs, filename \in TextFileInputs,
          model \in ModelInputs, status_reply \in TagsReplies,
          models_reply \in TagsReplies, stamp \in Stamps :
         LET rec == [IdleReq EXCEPT !.kind = "text",
                                    !.document_type = document_type,
                                    !.filename = filename, !.model = model,
                                    !.file_path = FilePath(stamp, filename)]
             file_ext == Lower(filename.ext)
         IN /\ req' = [req EXCEPT ![r] =
                IF document_type \notin ValidTypes THEN Finish(rec, 400)
                ELSE IF file_ext \notin TextExtensions THEN Finish(rec, 400)
                ELSE IF ~check_ollama_status(status_reply).available
                     THEN Finish([rec EXCEPT !.backend = Heard("none", status_reply)], 503)
                ELSE IF model \notin get_available_models(models_reply)
                     THEN Finish([rec EXCEPT !.backend =
                                     Heard(Heard("none", status_reply), models_reply)], 400)
                ELSE [rec EXCEPT !.pc = "await_read",
                                 !.backend = Heard(Heard("none", status_reply), models_reply)]]
            /\ files' = Opened(req'[r], stamp)
    /\ UNCHANGED <<db, status_log, storage_faults, client, cmp, speech>>

\* upload_audio_document up to "await file.read()".
StartAudio(r) ==
    /\ req[r].pc = "idle"
    /\ \A q \in Requests : q < r => req[q].pc # "idle"
    /\ MayRun(r)
    /\ \E document_type \in DocumentTypeInputs, filename \in AudioFileInputs,
          model \in ModelInputs, stamp \in Stamps :
         LET rec == [IdleReq EXCEPT !.kind = "audio",
                                    !.document_type = document_type,
                                    !.filename = filename, !.model = model,
                                    !.file_path = FilePath(stamp, filename)]
             file_ext == Lower(filename.ext)
         IN /\ req' = [req EXCEPT ![r] =
                IF document_type \notin ValidTypes THEN Finish(rec, 400)
                ELSE IF file_ext \notin AudioExtensions THEN Finish(rec, 400)
                ELSE [rec EXCEPT !.pc = "await_read"]]
            /\ files' = Opened(req'[r], stamp)
    /\ UNCHANGED <<db, status_log, storage_faults, client, cmp, speech>>

\* The body is read and written to the upload file, then create_document
\* runs, outside the try block: a storage error here leaves no row.
CreateDocument(r) ==
    /\ req[r].pc = "await_read"
    /\ MayRun(r)
    /\ \E ok \in WriteOutcomes :
         IF ok
         THEN /\ documents' = create_document(documents, "Q3", req[r].document_type,
                                              req[r].file_path)
              /\ status_log' = Append(status_log, <<"uploading">>)
              /\ req' = [req EXCEPT ![r] =
                            [@ EXCEPT !.doc_id = Len(documents) + 1,
                                      !.pc = IF req[r].kind = "text" THEN "extract"
                                             ELSE "mark_transcribing"]]
              /\ UNCHANGED storage_faults
         ELSE /\ req' = [req EXCEPT ![r] = Finish([@ EXCEPT !.fault = TRUE], 500)]
              /\ storage_faults' = storage_faults + 1
              /\ UNCHANGED <<documents, status_log>>
    /\ files' = write(files, req[r].file_path, UploadBody(r, req[r].kind))
    /\ UNCHANGED <<analyses, sections, metrics_history, client, cmp, speech>>

\* The text pipeline writing "analyzing" where the code writes "processing".
StatusAfterExtractAnalyzing == "analyzing"

\* The status each pipeline writes before it calls the annotation client.
StatusAfterExtract == "processing"

StatusAfterTranscribe == "analyzing"

\* Text pipeline: extract_text_from_file, then status "processing".
Extract(r) ==
    /\ req[r].pc = "extract"
    /\ MayRun(r)
    /\ \E out \in ExtractOutcomes, ok \in WriteOutcomes :
         IF out = "raises"
         THEN /\ req' = [req EXCEPT ![r] = [@ EXCEPT !.pc = "except", !.fault = TRUE]]
              /\ UNCHANGED <<documents, status_log, storage_faults>>
         ELSE IF ~ok
         THEN /\ req' = [req EXCEPT ![r] = [@ EXCEPT !.pc = "except", !.fault = TRUE]]
              /\ storage_faults' = storage_faults + 1
              /\ UNCHANGED <<documents, status_log>>
         ELSE /\ req' = [req EXCEPT ![r] =
                            [@ EXCEPT !.pc = "analyze_document",
                                      !.text_content =
                                          extract_text_from_file(files[req[r].file_path])]]
              /\ SetStatus(req[r].doc_id, StatusAfterExtract)
              /\ UNCHANGED storage_faults
    /\ UNCHANGED <<analyses, sections, metrics_history, client, cmp, speech, files>>

\* Audio pipeline: status "transcribing".
MarkTranscribing(r) ==
    /\ req[r].pc = "mark_transcribing"
    /\ MayRun(r)
    /\ \E ok \in WriteOutcomes :
         IF ok
         THEN /\ req' = [req EXCEPT ![r] = [@ EXCEPT !.pc = "transcribe"]]
              /\ SetStatus(req[r].doc_id, "transcribing")
              /\ UNCHANGED storage_faults
         ELSE /\ req' = [req EXCEPT ![r] = [@ EXCEPT !.pc = "except", !.fault = TRUE]]
              /\ storage_faults' = storage_faults + 1
              /\ UNCHANGED <<documents, status_log>>
    /\ UNCHANGED <<analyses, sections, metrics_history, client, cmp, speech, files>>

\* Audio pipeline: transcribe_audio_file, the transcript file, then status
\* "analyzing".
Transcribe(r) ==
    /\ req[r].pc = "transcribe"
    /\ MayRun(r)
    /\ \E out \in TranscribeOutcomes, ok \in WriteOutcomes :
         LET result == transcribe_audio_file(files[req[r].file_path])
             text == DictGet(result, "formatted_text", Subscript(result, "text").v)
             invoked == IF validate_audio_file(req[r].filename) /\
                           out \in {"ok", "backend_error"} THEN 1 ELSE 0
         IN
         IF \/ ~validate_audio_file(req[r].filename)
            \/ out # "ok"
            \/ Subscript(result, "text").raised
         THEN /\ req' = [req EXCEPT ![r] = [@ EXCEPT !.pc = "except", !.fault = TRUE,
                                                    !.raised_in = "transcribe",
                                                    !.calls.transcribe = @ + invoked]]
              /\ UNCHANGED <<documents, status_log, storage_faults>>
         ELSE IF ~ok
         THEN /\ req' = [req EXCEPT ![r] = [@ EXCEPT !.pc = "except", !.fault = TRUE,
                                                    !.calls.transcribe = @ + invoked]]
              /\ storage_faults' = storage_faults + 1
              /\ UNCHANGED <<documents, status_log>>
         ELSE /\ req' = [req EXCEPT ![r] =
                            [@ EXCEPT !.pc = "analyze_document",
                                      !.transcription_result = result,
                                      !.text_content = text.v.x,
                                      !.calls.transcribe = @ + invoked]]
              /\ SetStatus(req[r].doc_id, StatusAfterTranscribe)
              /\ UNCHANGED storage_faults
    /\ UNCHANGED <<analyses, sections, metrics_history, client, cmp, speech, files>>

\* analyze_document_content on the extracted text or the transcript.
AnalyzeDocument(r) ==
    /\ req[r].pc = "analyze_document"
    /\ MayRun(r)
    /\ \E reply \in PipelineDocReplies :
         IF analyze_document_content_raises(req[r].text_content, req[r].model, reply)
         THEN req' = [req EXCEPT ![r] =
                         [@ EXCEPT !.pc = "except", !.backend = Heard(@, reply),
                                   !.doc_reply = WellShaped(reply),
                                   !.calls.document = @ + 1]]
         ELSE req' = [req EXCEPT ![r] =
                         [@ EXCEPT !.pc = "save_analysis",
                                   !.backend = Heard(@, reply),
                                   !.doc_reply = WellShaped(reply),
                                   !.calls.document = @ + 1,
                                   !.analysis_result =
                                       analyze_document_content(req[r].text_content,
                                                                req[r].model, reply)]]
    /\ UNCHANGED <<db, status_log, storage_faults, client, cmp, speech, files>>

\* create_analysis(db, document_id=doc_id, overall_sentiment=
\* analysis_result["overall_sentiment"], ...): the subscripts are evaluated
\* first, and any of them may raise.
SaveAnalysis(r) ==
    /\ req[r].pc = "save_analysis"
    /\ MayRun(r)
    /\ LET a == req[r].analysis_result
           label == Subscript(a, "overall_sentiment")
           scores == ScoreArgs(a)
           themes == Subscript(a, "key_themes")
           tone == Subscript(a, "emotional_tone")
           metrics == Subscript(a, "linguistic_metrics")
           raised == \/ label.raised \/ scores.raised \/ themes.raised
                     \/ tone.raised \/ metrics.raised
                     \/ ~Bindable(label.v)
                     \/ \E i \in 1..5 : ~Bindable(scores.v[i])
       IN
       IF raised
       THEN /\ req' = [req EXCEPT ![r] = [@ EXCEPT !.pc = "except"]]
            /\ UNCHANGED <<analyses, storage_faults>>
       ELSE \E ok \in WriteOutcomes :
              IF ok
              THEN /\ analyses' = create_analysis(analyses, req[r].doc_id, label.v,
                                                  scores.v, themes.v, tone.v, metrics.v)
                   /\ req' = [req EXCEPT ![r] =
                                 [@ EXCEPT !.pc = "analyze_sections",
                                           !.analysis_id = Len(analyses) + 1]]
                   /\ UNCHANGED storage_faults
              ELSE /\ req' = [req EXCEPT ![r] = [@ EXCEPT !.pc = "except", !.fault = TRUE]]
                   /\ storage_faults' = storage_faults + 1
                   /\ UNCHANGED analyses
    /\ UNCHANGED <<documents, sections, metrics_history, status_log, client, cmp, speech, files>>

\* The section loop leaving after its first pass.
LoopPcSkipping(v, idx) ==
    LET it == Iterate(v) IN
    IF it.raised THEN "except"
    ELSE IF idx < Len(it.items) /\ idx < 1 THEN "save_section"
    ELSE "save_metrics"

\* Where the loop "for idx, section in enumerate(sections_result)" stands
\* with idx sections done.
LoopPc(v, idx) ==
    LET it == Iterate(v) IN
    IF it.raised THEN "except"
    ELSE IF idx < Len(it.items) THEN "save_section"
    ELSE "save_metrics"

\* analyze_sections_content on the same text.
AnalyzeSections(r) ==
    /\ req[r].pc = "analyze_sections"
    /\ MayRun(r)
    /\ \E reply \in PipelineSecReplies :
         LET result == analyze_sections_content(req[r].text_content, req[r].model, reply)
         IN IF analyze_sections_content_raises(req[r].text_content, req[r].model, reply)
            THEN req' = [req EXCEPT ![r] =
                            [@ EXCEPT !.pc = "except", !.backend = Heard(@, reply),
                                      !.sec_reply = WellShaped(reply),
                                      !.calls.sections = @ + 1]]
            ELSE req' = [req EXCEPT ![r] =
                            [@ EXCEPT !.pc = LoopPc(result, 0),
                                      !.backend = Heard(@, reply),
                                      !.sec_reply = WellShaped(reply),
                                      !.calls.sections = @ + 1,
                                      !.sections_result = result,
                                      !.idx = 0]]
    /\ UNCHANGED <<db, status_log, storage_faults, client, cmp, speech, files>>

\* One pass of the loop body: create_section(..., order=idx).
SaveSection(r) ==
    /\ req[r].pc = "save_section"
    /\ MayRun(r)
    /\ LET idx == req[r].idx
           section == Iterate(req[r].sections_result).items[idx + 1]
           title == Subscript(section, "section_title")
           stype == DictGet(section, "section_type", JNull)
           speaker == DictGet(section, "speaker", JNull)
           otext == Subscript(section, "original_text")
           scores == ScoreArgs(section)
           issues == Subscript(section, "issues")
           revision == Subscript(section, "suggested_revision")
           rationale == Subscript(section, "revision_rationale")
           raised == \/ title.raised \/ stype.raised \/ speaker.raised
                     \/ otext.raised \/ scores.raised \/ issues.raised
                     \/ revision.raised \/ rationale.raised
                     \/ \E v \in {title.v, stype.v, speaker.v, otext.v,
                                  revision.v, rationale.v} : ~Bindable(v)
                     \/ \E i \in 1..5 : ~Bindable(scores.v[i])
                     \/ title.v = JNull \/ otext.v = JNull
       IN
       IF raised
       THEN /\ req' = [req EXCEPT ![r] = [@ EXCEPT !.pc = "except"]]
            /\ UNCHANGED <<sections, storage_faults>>
       ELSE \E ok \in WriteOutcomes :
              IF ok
              THEN /\ sections' = create_section(sections, req[r].analysis_id, title.v,
                                                 stype.v, speaker.v, otext.v, scores.v,
                                                 issues.v, revision.v, rationale.v, idx)
                   /\ req' = [req EXCEPT ![r] =
                                 [@ EXCEPT !.idx = idx + 1,
                                           !.pc = LoopPc(req[r].sections_result, idx + 1)]]
                   /\ UNCHANGED storage_faults
              ELSE /\ req' = [req EXCEPT ![r] = [@ EXCEPT !.pc = "except", !.fault = TRUE]]
                   /\ storage_faults' = storage_faults + 1
                   /\ UNCHANGED sections
    /\ UNCHANGED <<documents, analyses, metrics_history, status_log, client, cmp, speech, files>>

\* create_metrics with the document's type and the analysis scores.
SaveMetrics(r) ==
    /\ req[r].pc = "save_metrics"
    /\ MayRun(r)
    /\ \E ok \in WriteOutcomes :
         IF ok
         THEN /\ metrics_history' =
                     create_metrics(metrics_history, req[r].doc_id, req[r].analysis_id,
                                    req[r].document_type,
                                    ScoreArgs(req[r].analysis_result).v)
              /\ req' = [req EXCEPT ![r] = [@ EXCEPT !.pc = "complete"]]
              /\ UNCHANGED storage_faults
         ELSE /\ req' = [req EXCEPT ![r] = [@ EXCEPT !.pc = "except", !.fault = TRUE]]
              /\ storage_faults' = storage_faults + 1
              /\ UNCHANGED metrics_history
    /\ UNCHANGED <<documents, analyses, sections, status_log, client, cmp, speech, files>>

\* The audio handler builds its response inside the try block, from
\* transcription_result["duration"], ["language"], .get("segments", []) and
\* ["backend"]: a missing key there raises into the except clause.
AudioResponseRaises(result) ==
    \/ Subscript(result, "duration").raised
    \/ Subscript(result, "language").raised
    \/ DictGet(result, "segments", JArr(<<>>)).v.t \notin {"arr", "obj", "str"}
    \/ Subscript(result, "backend").raised

\* Status "completed", then the response.
Complete(r) ==
    /\ req[r].pc = "complete"
    /\ MayRun(r)
    /\ \E ok \in WriteOutcomes :
         IF ok
         THEN /\ SetStatus(req[r].doc_id, "completed")
              /\ req' = [req EXCEPT ![r] =
                            IF @.kind = "audio" /\ AudioResponseRaises(@.transcription_result)
                            THEN [@ EXCEPT !.pc = "except"]
                            ELSE Finish(@, 200)]
              /\ UNCHANGED storage_faults
         ELSE /\ req' = [req EXCEPT ![r] = [@ EXCEPT !.pc = "except", !.fault = TRUE]]
              /\ storage_faults' = storage_faults + 1
              /\ UNCHANGED <<documents, status_log>>
    /\ UNCHANGED <<analyses, sections, metrics_history, client, cmp, speech, files>>

\* The exception handler leaving the status it found.
StatusOnExceptionKept == "transcribing"

\* The status both pipelines write in their exception handler.
StatusOnException == "failed"

\* except Exception: status "failed", then HTTP 500.  When this write
\* raises too, the status stays as it was.
Except(r) ==
    /\ req[r].pc = "except"
    /\ MayRun(r)
    /\ \E ok \in WriteOutcomes :
         IF ok
         THEN /\ SetStatus(req[r].doc_id, StatusOnException)
              /\ req' = [req EXCEPT ![r] = Finish(@, 500)]
              /\ UNCHANGED storage_faults
         ELSE /\ req' = [req EXCEPT ![r] =
                            Finish([@ EXCEPT !.fault = TRUE, !.status_lost = TRUE], 500)]
              /\ storage_faults' = storage_faults + 1
              /\ UNCHANGED <<documents, status_log>>
    /\ UNCHANGED <<analyses, sections, metrics_history, client, cmp, speech, files>>

Next ==
    \E r \in Requests :
        \/ StartText(r)
        \/ StartAudio(r)
        \/ CreateDocument(r)
        \/ Extract(r)
        \/ MarkTranscribing(r)
        \/ Transcribe(r)
        \/ AnalyzeDocument(r)
        \/ SaveAnalysis(r)
        \/ AnalyzeSections(r)
        \/ SaveSection(r)
        \/ SaveMetrics(r)
        \/ Complete(r)
        \/ Except(r)

Spec == Init /\ [][Next]_vars

(***************************************************************************)
(* The annotation client on its own: one call of analyze_document_content  *)
(* or analyze_sections_content on any text, model and backend reply.       *)
(***************************************************************************)
LongText == [i \in 1..(SectionPreviewLen + 1) |-> "x"]

AnnotTexts == {UploadContent, LongText}

InitAnnot ==
    /\ documents = <<>>
    /\ analyses = <<>>
    /\ sections = <<>>
    /\ metrics_history = <<>>
    /\ req = [r \in Requests |-> IdleReq]
    /\ status_log = <<>>
    /\ storage_faults = 0
    /\ client \in [state : {"pending"}, fn : {"document", "sections"},
                   text : AnnotTexts, model : ModelInputs, reply : Replies,
                   result : {JNull}]
    /\ comparisons = <<>>
    /\ comparison_seq = 0
    /\ created_ids = <<>>
    /\ api = IdleApi
    /\ speech = IdleSpeech
    /\ files = NoFiles

CallAnalyzeDocument ==
    /\ client.state = "pending"
    /\ client.fn = "document"
    /\ client' =
          IF analyze_document_content_raises(client.text, client.model, client.reply)
          THEN [client EXCEPT !.state = "raised"]
          ELSE [client EXCEPT
                   !.state = "returned",
                   !.result = analyze_document_content(client.text, client.model,
                                                       client.reply)]
    /\ UNCHANGED <<db, req, status_log, storage_faults, cmp, speech, files>>

CallAnalyzeSections ==
    /\ client.state = "pending"
    /\ client.fn = "sections"
    /\ client' =
          IF analyze_sections_content_raises(client.text, client.model, client.reply)
          THEN [client EXCEPT !.state = "raised"]
          ELSE [client EXCEPT
                   !.state = "returned",
                   !.result = analyze_sections_content(client.text, client.model,
                                                       client.reply)]
    /\ UNCHANGED <<db, req, status_log, storage_faults, cmp, speech, files>>

NextAnnot == CallAnalyzeDocument \/ CallAnalyzeSections

SpecAnnot == InitAnnot /\ [][NextAnnot]_vars

(***************************************************************************)
(* The comparison endpoints on their own, over a database that already     *)
(* holds two documents whose uploads failed: the first after its analysis  *)
(* was saved, the second at extraction.  The handlers never await, so each *)
(* runs as one step.                                                       *)
(***************************************************************************)
MaxComparisons == 2

MaxIdListLen == 3

\* Ids a client may name: the two stored documents and one that is absent.
DocumentIdInputs == 1..3

IdListInputs ==
    UNION {[1..n -> DocumentIdInputs] : n \in 0..MaxIdListLen}

ComparisonIdInputs == 1..(MaxComparisons + 1)

StoredDocuments ==
    update_document_status(
        update_document_status(
            create_document(
                create_document(<<>>, "Q3", "other",
                                [stamp |-> 0, stem |-> "report", ext |-> ".txt"]),
                "Q4", "other", [stamp |-> 1, stem |-> "report", ext |-> ".txt"]),
            1, "failed"),
        2, "failed")

StoredAnalyses ==
    create_analysis(<<>>, 1, JStr("neutral"), ScoreArgs(get_default_analysis).v,
                    Subscript(get_default_analysis, "key_themes").v,
                    Subscript(get_default_analysis, "emotional_tone").v,
                    Subscript(get_default_analysis, "linguistic_metrics").v)

\* What a read keeps of the request answered just before it: that request
\* and its answer when the read repeats it, nothing otherwise.
Previous(op, arg) ==
    IF api.op = op /\ api.arg = arg
    THEN [op |-> api.op, arg |-> api.arg, status |-> api.status, body |-> api.body]
    ELSE IdleApi

InitCompare ==
    /\ documents = StoredDocuments
    /\ analyses = StoredAnalyses
    /\ sections = <<>>
    /\ metrics_history = <<>>
    /\ req = [r \in Requests |-> IdleReq]
    /\ status_log = [i \in DOMAIN StoredDocuments |-> <<"uploading", "failed">>]
    /\ storage_faults = 0
    /\ client = IdleClient
    /\ comparisons = <<>>
    /\ comparison_seq = 0
    /\ created_ids = <<>>
    /\ api = IdleApi
    /\ speech = IdleSpeech
    /\ files = NoFiles

\* POST /api/comparisons
CreateDocumentComparison ==
    /\ comparison_seq < MaxComparisons
    /\ \E document_ids \in IdListInputs, ok \in WriteOutcomes :
         LET call == [op |-> "create", arg |-> document_ids, status |-> 0,
                      body |-> JNull]
         IN
         IF Len(document_ids) < 2
         THEN /\ api' = [call EXCEPT !.status = 400]
              /\ UNCHANGED <<comparisons, comparison_seq, created_ids, storage_faults>>
         ELSE IF \E i \in DOMAIN document_ids :
                    get_document(documents, document_ids[i]) = {}
         THEN /\ api' = [call EXCEPT !.status = 404]
              /\ UNCHANGED <<comparisons, comparison_seq, created_ids, storage_faults>>
         ELSE IF ~ok
         THEN /\ api' = [call EXCEPT !.status = 500]
              /\ storage_faults' = storage_faults + 1
              /\ UNCHANGED <<comparisons, comparison_seq, created_ids>>
         ELSE /\ comparisons' = create_comparison(comparisons, comparison_seq, "peers",
                                                  JNull, document_ids)
              /\ comparison_seq' = comparison_seq + 1
              /\ created_ids' = Append(created_ids, document_ids)
              /\ api' = [call EXCEPT
                            !.status = 200,
                            !.body = get_comparison(comparisons', comparison_seq + 1)[1]]
              /\ UNCHANGED storage_faults
    /\ UNCHANGED <<db, req, status_log, client, speech, files>>

\* GET /api/documents/{document_id} answered by a read that also removes
\* the row it returned.
GetDocumentByIdConsuming ==
    /\ \E document_id \in DocumentIdInputs :
         LET doc == get_document(documents, document_id)
             call == [op |-> "get_document", arg |-> <<document_id>>, status |-> 0,
                      body |-> JNull, last |-> Previous("get_document", <<document_id>>)]
         IN /\ api' = IF doc = {} THEN [call EXCEPT !.status = 404]
                       ELSE [call EXCEPT !.status = 200,
                                         !.body = CHOOSE d \in doc : TRUE]
            /\ documents' = SelectSeq(documents, LAMBDA row : row.id # document_id)
    /\ UNCHANGED <<analyses, sections, metrics_history, req, status_log,
                   storage_faults, client, comparisons, comparison_seq, created_ids,
                   speech, files>>

\* GET /api/documents/{document_id}
GetDocumentById ==
    /\ \E document_id \in DocumentIdInputs :
         LET doc == get_document(documents, document_id)
             call == [op |-> "get_document", arg |-> <<document_id>>, status |-> 0,
                      body |-> JNull, last |-> Previous("get_document", <<document_id>>)]
         IN api' = IF doc = {} THEN [call EXCEPT !.status = 404]
                   ELSE [call EXCEPT !.status = 200,
                                     !.body = CHOOSE d \in doc : TRUE]
    /\ UNCHANGED <<db, req, status_log, storage_faults, client, comparisons,
                   comparison_seq, created_ids, speech, files>>

\* GET /api/documents/{document_id}/analysis
GetDocumentAnalysis ==
    /\ \E document_id \in DocumentIdInputs :
         LET doc == get_document(documents, document_id)
             analysis == get_analysis_by_document_id(analyses, document_id)
             call == [op |-> "get_analysis", arg |-> <<document_id>>, status |-> 0,
                      body |-> JNull, last |-> Previous("get_analysis", <<document_id>>)]
         IN api' = IF doc = {} \/ analysis = <<>> THEN [call EXCEPT !.status = 404]
                   ELSE [call EXCEPT
                            !.status = 200,
                            !.body = [analysis |-> analysis[1],
                                      sections |-> get_sections_by_analysis_id(
                                                       sections, analysis[1].id)]]
    /\ UNCHANGED <<db, req, status_log, storage_faults, client, comparisons,
                   comparison_seq, created_ids, speech, files>>

\* The loop of get_comparison_detail entering a document only the first
\* time its id occurs.
ExpandDocumentsOnce(document_ids) ==
    LET first == {i \in DOMAIN document_ids :
                     /\ document_ids[i].t = "int"
                     /\ get_document(documents, document_ids[i].i) # {}
                     /\ \A j \in 1..(i - 1) : document_ids[j] # document_ids[i]}
        RECURSIVE Entries(_)
        Entries(i) ==
            IF i > Len(document_ids) THEN <<>>
            ELSE (IF i \in first
                  THEN <<[document |->
                              CHOOSE d \in get_document(documents, document_ids[i].i) : TRUE,
                          analysis |->
                              get_analysis_by_document_id(analyses, document_ids[i].i)]>>
                  ELSE <<>>) \o Entries(i + 1)
    IN Entries(1)

\* The loop of get_comparison_detail: for each id that names a document,
\* in the order of the list, the document and its analysis (None when it
\* has none).
ExpandDocuments(document_ids) ==
    LET found == SelectSeq(document_ids, LAMBDA d : d.t = "int" /\
                                  get_document(documents, d.i) # {})
    IN [i \in DOMAIN found |->
           [document |-> CHOOSE d \in get_document(documents, found[i].i) : TRUE,
            analysis |-> get_analysis_by_document_id(analyses, found[i].i)]]

\* GET /api/comparisons/{comparison_id}: the comparison, and for each of
\* its ids that names a document, the document and its analysis.
GetComparisonDetail ==
    /\ \E comparison_id \in ComparisonIdInputs :
         LET comp == get_comparison(comparisons, comparison_id)
             call == [op |-> "get", arg |-> <<comparison_id>>, status |-> 0,
                      body |-> JNull, last |-> Previous("get", <<comparison_id>>)]
         IN
         IF comp = <<>>
         THEN api' = [call EXCEPT !.status = 404]
         ELSE api' = [call EXCEPT
                         !.status = 200,
                         !.body = [comparison |-> comp[1],
                                   documents |->
                                       ExpandDocuments(
                                           Iterate(comp[1].document_ids).items)]]
    /\ UNCHANGED <<db, req, status_log, storage_faults, client, comparisons,
                   comparison_seq, created_ids, speech, files>>

\* DELETE /api/comparisons/{comparison_id}
DeleteDocumentComparison ==
    /\ \E comparison_id \in ComparisonIdInputs, ok \in WriteOutcomes :
         LET call == [op |-> "delete", arg |-> <<comparison_id>>, status |-> 0,
                      body |-> JNull]
         IN
         IF ~ok
         THEN /\ api' = [call EXCEPT !.status = 500]
              /\ storage_faults' = storage_faults + 1
              /\ UNCHANGED comparisons
         ELSE /\ comparisons' = delete_comparison(comparisons, comparison_id)
              /\ api' = [call EXCEPT
                            !.status = IF get_comparison(comparisons, comparison_id) = <<>>
                                       THEN 404 ELSE 200]
              /\ UNCHANGED storage_faults
    /\ UNCHANGED <<db, req, status_log, client, comparison_seq, created_ids, speech, files>>

NextCompare ==
    \/ CreateDocumentComparison
    \/ GetDocumentById
    \/ GetDocumentAnalysis
    \/ GetComparisonDetail
    \/ DeleteDocumentComparison

SpecCompare == InitCompare /\ [][NextCompare]_vars

(***************************************************************************)
(* detect_speakers_simple on its own: one call on any list of segments     *)
(* with whole-second times, as the transcription backend yields them       *)
(* (speaker None).                                                         *)
(***************************************************************************)
MaxSegments == 3

MaxTime == 5

SegmentTexts == <<"good morning", "thank you", "next question", "closing remarks">>

SegmentSpans == {span \in [start : 0..MaxTime, end : 0..MaxTime] : span.start <= span.end}

SegmentListInputs ==
    UNION {{[i \in 1..n |-> [start |-> spans[i].start, end |-> spans[i].end,
                              text |-> SegmentTexts[i], speaker |-> "None"]] :
               spans \in [1..n -> SegmentSpans]} : n \in 0..MaxSegments}

InitSpeakers ==
    /\ documents = <<>>
    /\ analyses = <<>>
    /\ sections = <<>>
    /\ metrics_history = <<>>
    /\ req = [r \in Requests |-> IdleReq]
    /\ status_log = <<>>
    /\ storage_faults = 0
    /\ client = IdleClient
    /\ comparisons = <<>>
    /\ comparison_seq = 0
    /\ created_ids = <<>>
    /\ api = IdleApi
    /\ speech \in [state : {"pending"}, segments : SegmentListInputs, result : {<<>>}]
    /\ files = NoFiles

CallDetectSpeakers ==
    /\ speech.state = "pending"
    /\ speech' = [speech EXCEPT !.state = "returned",
                                !.result = detect_speakers_simple(speech.segments)]
    /\ UNCHANGED <<db, req, status_log, storage_faults, client, cmp, files>>

NextSpeakers == CallDetectSpeakers

SpecSpeakers == InitSpeakers /\ [][NextSpeakers]_vars

(***************************************************************************)
(* Properties of the upload pipelines (specification Spec).                *)
(***************************************************************************)
Terminal == {"completed", "failed"}

HasDoc(r) == req[r].doc_id # 0

DocOf(r) == documents[req[r].doc_id]

\* The upload passes the checks that do not need the backend.
ValidUpload(r) ==
    /\ req[r].document_type \in ValidTypes
    /\ Lower(req[r].filename.ext) \in
          (IF req[r].kind = "text" THEN TextExtensions ELSE AudioExtensions)

ScoreFields ==
    {"sentiment_score", "confidence_score", "clarity_score",
     "readability_score", "specificity_score"}

\* C1: once a document's status is completed or failed, no step of any
\* handler changes it.
C1_TerminalStatusIsFinal ==
    [][\A i \in DOMAIN documents :
          documents[i].status \in Terminal =>
              documents'[i].status = documents[i].status]_vars

\* An audio upload answered 200 after writing completed, and a later upload
\* that ran to failed.
C1_Witness ==
    \E r, q \in Requests :
        /\ req[r].pc = "done" /\ req[r].kind = "audio" /\ req[r].response = 200
        /\ HasDoc(r) /\ DocOf(r).status = "completed"
        /\ req[q].pc = "done" /\ req[q].doc_id > req[r].doc_id
        /\ DocOf(q).status = "failed"

\* C2 as stated: a completed document went uploading, (transcribing,)
\* processing, analyzing, completed.
C2_StatusSequenceAsClaimed ==
    \A r \in Requests :
        (HasDoc(r) /\ DocOf(r).status = "completed") =>
            status_log[req[r].doc_id] =
                IF req[r].kind = "audio"
                THEN <<"uploading", "transcribing", "processing", "analyzing", "completed">>
                ELSE <<"uploading", "processing", "analyzing", "completed">>

\* C2 amended: a completed text document went uploading, processing,
\* completed; a completed audio document went uploading, transcribing,
\* analyzing, completed.
C2_StatusSequence ==
    \A r \in Requests :
        (HasDoc(r) /\ DocOf(r).status = "completed") =>
            status_log[req[r].doc_id] =
                IF req[r].kind = "audio"
                THEN <<"uploading", "transcribing", "analyzing", "completed">>
                ELSE <<"uploading", "processing", "completed">>

C2_Witness ==
    \E r, q \in Requests :
        /\ HasDoc(r) /\ req[r].kind = "text" /\ DocOf(r).status = "completed"
        /\ HasDoc(q) /\ req[q].kind = "audio" /\ DocOf(q).status = "completed"

\* C3: an upload whose document row was created and whose extraction,
\* transcription and storage writes all succeeded ends completed, whatever
\* the annotation backend returned.
C3_MalformedOutputNeverFails ==
    \A r \in Requests :
        (req[r].pc = "done" /\ HasDoc(r) /\ ~req[r].fault) =>
            DocOf(r).status = "completed"

\* C4 as stated: a valid upload during which the backend was unreachable
\* leaves a failed document without an Analysis row.
C4_UnreachableLeavesFailed ==
    \A r \in Requests :
        (req[r].pc = "done" /\ ValidUpload(r) /\ req[r].backend = "down") =>
            /\ HasDoc(r)
            /\ DocOf(r).status = "failed"
            /\ get_analysis_by_document_id(analyses, req[r].doc_id) = <<>>

\* C4 amended: with the backend unreachable a valid text upload is refused
\* with 503 and creates no document, and a valid audio upload whose other
\* steps succeed ends completed with the default analysis stored.
C4_UnreachableOutcome ==
    \A r \in Requests :
        (req[r].pc = "done" /\ ValidUpload(r) /\ req[r].backend = "down") =>
            /\ req[r].kind = "text" => (req[r].response = 503 /\ ~HasDoc(r))
            /\ (req[r].kind = "audio" /\ ~req[r].fault) =>
                  /\ HasDoc(r)
                  /\ DocOf(r).status = "completed"
                  /\ LET a == get_analysis_by_document_id(analyses, req[r].doc_id) IN
                     /\ a # <<>>
                     /\ a[1].overall_sentiment = JStr("neutral")
                     /\ \A f \in ScoreFields : a[1][f] = JInt(50)

C4_Witness ==
    \E r, q \in Requests :
        /\ req[r].pc = "done" /\ req[r].kind = "text" /\ ValidUpload(r)
        /\ req[r].backend = "down" /\ req[r].response = 503
        /\ req[q].pc = "done" /\ req[q].kind = "audio" /\ ValidUpload(q)
        /\ req[q].backend = "down" /\ ~req[q].fault /\ HasDoc(q)

\* C5: every completed document has an Analysis row carrying its id, the
\* one its own run wrote, and no other document reads that row as its own.
C5_CompletedHasOwnAnalysis ==
    \A i \in DOMAIN documents :
        documents[i].status = "completed" =>
            LET a == get_analysis_by_document_id(analyses, documents[i].id) IN
            /\ a # <<>>
            /\ a[1].document_id = documents[i].id
            /\ \E r \in Requests :
                  req[r].doc_id = documents[i].id /\ req[r].analysis_id = a[1].id
            /\ \A j \in DOMAIN documents \ {i} :
                  LET b == get_analysis_by_document_id(analyses, documents[j].id) IN
                  b = <<>> \/ b[1].id # a[1].id

\* A failed document without an analysis, followed by a completed one whose
\* analysis row has another id than the document.
C5_Witness ==
    \E i, j \in DOMAIN documents :
        /\ i < j
        /\ documents[i].status = "failed"
        /\ documents[j].status = "completed"
        /\ get_analysis_by_document_id(analyses, documents[i].id) = <<>>
        /\ Len(analyses) = 1

\* C6: every score of every Analysis and Section row is an integer in
\* 0..100.
C6_ScoresInRange ==
    /\ \A i \in DOMAIN analyses : \A f \in ScoreFields :
          analyses[i][f].t = "int" /\ analyses[i][f].i \in 0..100
    /\ \A i \in DOMAIN sections : \A f \in ScoreFields :
          sections[i][f].t = "int" /\ sections[i][f].i \in 0..100

(***************************************************************************)
(* Properties of the annotation client (specification SpecAnnot).          *)
(***************************************************************************)
\* Generated texts that are not JSON.
NonJsonReplies == {"prose", "prose_surrogate", "truncated", "trailing_text", "empty"}

\* Generated texts that are JSON of another shape than the document-level
\* one: an object missing required fields, or no object at all.
WrongShapeDocReplies ==
    {"doc_missing_field", "doc_empty_object", "doc_in_array", "number", "null"}

\* Generated texts that are JSON of another shape than {"sections": [...]}.
WrongShapeSecReplies ==
    {"sec_no_field", "sec_in_array", "sec_not_list", "doc_empty_object",
     "number", "null"}

Returned(fn) == client.state = "returned" /\ client.fn = fn

DefaultMarker == JStr("Analysis unavailable - check Ollama connection")

Called(fn) == client.state # "pending" /\ client.fn = fn

\* C7: every call of analyze_document_content on non-JSON text results in
\* the default analysis: neutral, five scores of 50, the placeholder theme,
\* the default tone and metrics.
C7_NonJsonGivesDefaultAnalysis ==
    (Called("document") /\ client.reply \in NonJsonReplies) =>
        /\ client.state = "returned"
        /\ client.result.t = "obj"
        /\ client.result.o["overall_sentiment"] = JStr("neutral")
        /\ \A f \in ScoreFields : client.result.o[f] = JInt(50)
        /\ client.result.o["key_themes"] = JArr(<<JStr("Analysis unavailable")>>)
        /\ client.result = get_default_analysis

\* C8: every call of analyze_sections_content on non-JSON text or a failed
\* transport results in exactly one section, titled "Full Document", with
\* the unavailable marker among its issues and five scores of 50.
C8_FailureGivesDefaultSection ==
    (Called("sections") /\
     client.reply \in NonJsonReplies \cup {"connection_error", "timeout", "http_500"}) =>
        /\ client.state = "returned"
        /\ client.result.t = "arr"
        /\ Len(client.result.a) = 1
        /\ LET sec == client.result.a[1] IN
           /\ sec.t = "obj"
           /\ sec.o["section_title"] = JStr("Full Document")
           /\ \E k \in DOMAIN sec.o["issues"].a : sec.o["issues"].a[k] = DefaultMarker
           /\ \A f \in ScoreFields : sec.o[f] = JInt(50)
           /\ sec.o["original_text"].x = Slice(client.text, SectionPreviewLen)

\* C9: JSON of another shape than the document-level one makes
\* analyze_document_content return the default analysis.
C9_WrongShapeGivesDefaultAnalysis ==
    (Returned("document") /\ client.reply \in WrongShapeDocReplies) =>
        client.result = get_default_analysis

\* C10: JSON of another shape than the section array makes
\* analyze_sections_content return the default single section, never an
\* empty list.
C10_WrongShapeGivesDefaultSection ==
    (Returned("sections") /\ client.reply \in WrongShapeSecReplies) =>
        /\ client.result = get_default_sections(client.text)
        /\ client.result # JArr(<<>>)

\* C11: analyze_document_content and analyze_sections_content never raise
\* to their caller, whatever the backend did.
C11_ClientNeverRaises == client.state # "raised"

InvalidTextUpload(rec) ==
    /\ rec.kind = "text"
    /\ \/ rec.document_type \notin ValidTypes
       \/ Lower(rec.filename.ext) \notin TextExtensions
       \/ rec.model \notin InstalledModels

C14_AudioUnknownModelRejected ==
    \A r \in Requests :
        (req[r].kind = "audio" /\ req[r].model \notin InstalledModels) =>
            /\ req[r].doc_id = 0
            /\ req[r].pc = "done" => req[r].response = 400

\* The file of upload r is over the cap of its kind.
OverCap(r) ==
    \/ req[r].kind = "text" /\ ~validate_file_size(req[r].filename)
    \/ req[r].kind = "audio" /\ req[r].filename.mb > MaxAudioMb

\* C15: an upload whose file is over the cap (10 MB text, 100 MB audio)
\* is refused before a Document row exists: no document over the cap is
\* persisted, in any status.
C15_OverCapNeverPersisted ==
    \A r \in Requests :
        OverCap(r) =>
            /\ req[r].doc_id = 0
            /\ req[r].pc = "done" => req[r].response # 200

\* The handler of r holds the list analyze_sections_content returned.
HoldsSections(r) ==
    /\ req[r].pc \in {"save_section", "save_metrics", "complete", "except"}
    /\ req[r].analysis_id # 0
    /\ req[r].sections_result # JNull
    /\ ~Iterate(req[r].sections_result).raised

\* C18: in every state, also in the middle of a run and after a run failed
\* part-way through its sections, the section_order values of the sections
\* of one analysis are exactly 0..k-1 for the k rows stored so far, and
\* get_sections_by_analysis_id returns the rows in that order, which is the
\* order in which the annotation client emitted them.
C18_SectionOrderContiguous ==
    /\ \A a \in DOMAIN analyses :
          LET rows == get_sections_by_analysis_id(sections, analyses[a].id) IN
          /\ \A k \in DOMAIN rows : rows[k].section_order = k - 1
          /\ \A k \in DOMAIN rows : k > 1 => rows[k - 1].id < rows[k].id
    /\ \A i \in DOMAIN sections :
          \E a \in DOMAIN analyses : analyses[a].id = sections[i].analysis_id
    /\ \A r \in Requests :
          HoldsSections(r) =>
              LET rows == get_sections_by_analysis_id(sections, req[r].analysis_id)
                  emitted == Iterate(req[r].sections_result).items
              IN /\ Len(rows) = req[r].idx
                 /\ Len(rows) <= Len(emitted)
                 /\ \A k \in DOMAIN rows :
                       rows[k].section_title = Subscript(emitted[k], "section_title").v

\* A run that failed after storing the first of two emitted sections,
\* beside a run that stored both of its sections.
C18_Witness ==
    \E r, q \in Requests :
        /\ req[r].pc = "done" /\ HasDoc(r) /\ DocOf(r).status = "failed"
        /\ req[r].analysis_id # 0
        /\ Len(get_sections_by_analysis_id(sections, req[r].analysis_id)) = 1
        /\ req[q].analysis_id # 0
        /\ Len(get_sections_by_analysis_id(sections, req[q].analysis_id)) = 2

MetricsOf(document_id) ==
    {j \in DOMAIN metrics_history : metrics_history[j].document_id = document_id}

\* Each completed document has exactly one MetricsHistory row, with its id,
\* its analysis id, its upload's document_type and its analysis scores.
CompletedHasOneMetricsRow ==
    \A i \in DOMAIN documents :
        documents[i].status = "completed" =>
            /\ Cardinality(MetricsOf(documents[i].id)) = 1
            /\ LET m == metrics_history[CHOOSE j \in MetricsOf(documents[i].id) : TRUE]
                   a == get_analysis_by_document_id(analyses, documents[i].id)
               IN /\ a # <<>>
                  /\ m.analysis_id = a[1].id
                  /\ m.document_type = documents[i].document_type
                  /\ \E r \in Requests :
                        /\ req[r].doc_id = documents[i].id
                        /\ req[r].document_type = m.document_type
                  /\ \A f \in ScoreFields : m[f] = a[1][f]

\* A step leaves every existing MetricsHistory row as it is.
MetricsAppendOnly ==
    \A j \in DOMAIN metrics_history :
        j \in DOMAIN metrics_history' /\ metrics_history'[j] = metrics_history[j]

\* C19: in every state each completed document has exactly one
\* MetricsHistory row, carrying the document's id, its analysis id, the
\* document_type given at upload and the five scores of the Analysis row;
\* and no step updates or deletes a MetricsHistory row.
C19_MetricsPerCompletedDocument ==
    []CompletedHasOneMetricsRow /\ [][MetricsAppendOnly]_vars

\* Two metrics rows, one of a completed document whose analysis is not the
\* default.
C19_Witness ==
    /\ Len(metrics_history) = 2
    /\ \E i \in DOMAIN documents :
          /\ documents[i].status = "completed"
          /\ \E j \in MetricsOf(documents[i].id) :
                metrics_history[j].sentiment_score = JInt(70)

HoldsText ==
    {"analyze_document", "save_analysis", "analyze_sections", "save_section",
     "save_metrics", "complete"}

OwnBytesStored ==
    \A r \in Requests :
        HasDoc(r) => files[DocOf(r).file_path] = UploadBody(r, req[r].kind)

OwnTextAnalyzed ==
    \A r \in Requests :
        (req[r].kind = "text" /\ req[r].pc \in HoldsText) =>
            req[r].text_content = extract_text_from_file(UploadBody(r, "text"))

\* C23: two uploads handled concurrently, whatever their filenames and
\* arrival times, share nothing but the database: the file each Document
\* row references holds exactly the bytes of its own upload, and each
\* Analysis is computed from the text of its own upload.
C23_UploadsShareOnlyDatabase == OwnBytesStored /\ OwnTextAnalyzed

\* C24: an upload that created a Document row and has finished left the
\* document completed or failed, whatever combination of extraction,
\* transcription, annotation and storage-write failures it met.
C24_FinishedUploadIsTerminal ==
    \A r \in Requests :
        (req[r].pc = "done" /\ HasDoc(r)) => DocOf(r).status \in Terminal

RowsKept(before, after) ==
    /\ Len(after) >= Len(before)
    /\ \A j \in DOMAIN before : after[j] = before[j]

NothingRolledBack ==
    /\ Len(documents') >= Len(documents)
    /\ \A j \in DOMAIN documents :
          [documents'[j] EXCEPT !.status = documents[j].status] = documents[j]
    /\ RowsKept(analyses, analyses')
    /\ RowsKept(sections, sections')
    /\ RowsKept(metrics_history, metrics_history')

\* The request failed at a step of the try block and its exception handler
\* wrote its status.
FailedInPipeline(r) ==
    /\ req[r].pc = "done" /\ HasDoc(r)
    /\ req[r].response = 500 /\ ~req[r].status_lost

FailedKeepsRows ==
    \A r \in Requests :
        FailedInPipeline(r) =>
            /\ DocOf(r).status = "failed"
            /\ req[r].analysis_id # 0 =>
                  \E a \in DOMAIN analyses :
                      /\ analyses[a].id = req[r].analysis_id
                      /\ analyses[a].document_id = req[r].doc_id

C26_NoRetry ==
    \A r \in Requests :
        /\ req[r].calls.transcribe <= 1
        /\ req[r].calls.document <= 1
        /\ req[r].calls.sections <= 1
        /\ (HasDoc(r) /\ DocOf(r).status = "failed") => req[r].pc = "done"

\* An audio upload that failed after all three calls were made once.
C26_Witness ==
    \E r \in Requests :
        /\ req[r].pc = "done" /\ req[r].response = 500
        /\ req[r].calls = [transcribe |-> 1, document |-> 1, sections |-> 1]
        /\ HasDoc(r) /\ DocOf(r).status = "failed"

AnalysisOf(document_id) ==
    {a \in DOMAIN analyses : analyses[a].document_id = document_id}

SectionsOf(analysis_id) ==
    {j \in DOMAIN sections : sections[j].analysis_id = analysis_id}

Emitted(r) == Len(Iterate(req[r].sections_result).items)

PersistedInOrder ==
    /\ \A j \in DOMAIN sections :
          \E a \in DOMAIN analyses : analyses[a].id = sections[j].analysis_id
    /\ \A m \in DOMAIN metrics_history :
          \E a \in AnalysisOf(metrics_history[m].document_id) :
              analyses[a].id = metrics_history[m].analysis_id
    /\ \A r \in Requests :
          req[r].pc = "complete" =>
              /\ MetricsOf(req[r].doc_id) # {}
              /\ Cardinality(SectionsOf(req[r].analysis_id)) = Emitted(r)
    /\ \A i \in DOMAIN documents :
          documents[i].status = "completed" => MetricsOf(documents[i].id) # {}

WrittenInOrder ==
    /\ \A j \in DOMAIN sections' \ DOMAIN sections :
          \E a \in DOMAIN analyses : analyses[a].id = sections'[j].analysis_id
    /\ \A m \in DOMAIN metrics_history' \ DOMAIN metrics_history :
          /\ sections' = sections
          /\ \E r \in Requests :
                /\ req[r].doc_id = metrics_history'[m].document_id
                /\ AnalysisOf(req[r].doc_id) # {}
                /\ Cardinality(SectionsOf(req[r].analysis_id)) = Emitted(r)
    /\ \A i \in DOMAIN documents :
          (documents'[i].status = "completed" /\ documents[i].status # "completed") =>
              MetricsOf(documents[i].id) # {}

\* C29: one run persists in a fixed order: the Analysis row before any
\* Section row, every Section the annotation client emitted before the
\* MetricsHistory row, and the MetricsHistory row before status completed;
\* so a MetricsHistory row implies the Analysis row and all emitted
\* Sections, and status completed implies the MetricsHistory row.
C29_PersistenceOrder == []PersistedInOrder /\ [][WrittenInOrder]_vars

\* A run whose MetricsHistory row is written, after its two sections, and
\* whose status is not yet completed.
C29_Witness ==
    \E r \in Requests :
        /\ req[r].pc = "complete"
        /\ Emitted(r) = 2
        /\ Cardinality(SectionsOf(req[r].analysis_id)) = 2
        /\ MetricsOf(req[r].doc_id) # {}
        /\ DocOf(r).status # "completed"

OneAnalysisPerDocument ==
    /\ \A i \in DOMAIN documents : Cardinality(AnalysisOf(documents[i].id)) <= 1
    /\ \A a \in DOMAIN analyses :
          /\ \E i \in DOMAIN documents : documents[i].id = analyses[a].document_id
          /\ get_analysis_by_document_id(analyses, analyses[a].document_id)[1].id =
                analyses[a].id

AnalysesImmutable == RowsKept(analyses, analyses')

\* C30: after any uploads, text or audio, successful or failed, one after
\* the other or interleaved, each Document has at most one Analysis row,
\* an Analysis row once written is never changed or removed, and
\* get_analysis_by_document_id returns the document's only Analysis.
C30_OneImmutableAnalysis == []OneAnalysisPerDocument /\ [][AnalysesImmutable]_vars

\* Two uploads, one completed and one failed, each with its own analysis.
C30_Witness ==
    \E r, q \in Requests :
        /\ req[r].pc = "done" /\ req[q].pc = "done"
        /\ HasDoc(r) /\ DocOf(r).status = "completed"
        /\ HasDoc(q) /\ DocOf(q).status = "failed"
        /\ AnalysisOf(req[r].doc_id) # {} /\ AnalysisOf(req[q].doc_id) # {}
        /\ Len(analyses) = 2

(***************************************************************************)
(* Properties of the comparison endpoints (specification SpecCompare).     *)
(***************************************************************************)
DocumentExists(document_id) ==
    \E j \in DOMAIN documents : documents[j].id = document_id

\* C16: a comparison created from at least 2 ids of existing documents
\* reads back by its id as exactly that list: same ids, same length, same
\* order, in the answer of the create request, in every later read, and in
\* the stored row.
C16_ComparisonRoundTrip ==
    /\ \A j \in DOMAIN comparisons :
          get_comparison(comparisons, comparisons[j].id)[1].document_ids =
              IdsJson(created_ids[comparisons[j].id])
    /\ (api.op = "create" /\ api.status = 200) =>
          /\ Len(api.arg) >= 2
          /\ api.body.document_ids = IdsJson(api.arg)
          /\ get_comparison(comparisons, api.body.id) = <<api.body>>
    /\ (api.op = "get" /\ api.status = 200) =>
          api.body.comparison.document_ids = IdsJson(created_ids[api.arg[1]])

\* A list with a duplicate, not in ascending order, read back after an
\* earlier comparison was deleted.
C16_Witness ==
    /\ api.op = "get" /\ api.status = 200
    /\ created_ids[api.arg[1]] = <<2, 1, 2>>
    /\ api.body.comparison.document_ids = JArr(<<JInt(2), JInt(1), JInt(2)>>)
    /\ comparison_seq = 2 /\ Len(comparisons) = 1

\* C17: a create request with fewer than 2 ids, or with an id that names no
\* document, is answered with an error and stores nothing: the comparisons
\* table is unchanged.
C17_BadComparisonRejected ==
    [][(/\ api'.op = "create"
        /\ \/ Len(api'.arg) < 2
           \/ \E i \in DOMAIN api'.arg : ~DocumentExists(api'.arg[i]))
       => /\ api'.status \in {400, 404}
          /\ comparisons' = comparisons
          /\ comparison_seq' = comparison_seq]_vars

\* An absent id refused while the table holds a comparison.
C17_Witness ==
    /\ api.op = "create" /\ api.status = 404
    /\ Len(api.arg) >= 2
    /\ Len(comparisons) > 0

\* The requests that only fetch: a Document, a document's Analysis, a
\* Comparison with its documents.
ReadOps == {"get_document", "get_analysis", "get"}

RepeatedRead == api.op \in ReadOps /\ api.last.op = api.op /\ api.last.arg = api.arg

SameAnswerAsBefore ==
    RepeatedRead => api.status = api.last.status /\ api.body = api.last.body

ReadLeavesRows ==
    api'.op \in ReadOps /\ api' # api =>
        UNCHANGED <<documents, analyses, sections, metrics_history, comparisons>>

\* C22: fetching a Document by id, an Analysis by document id or a
\* Comparison by id twice with no write in between returns identical field
\* values both times, and a fetch changes no persisted row.
C22_RepeatedFetchIdentical == []SameAnswerAsBefore /\ [][ReadLeavesRows]_vars

\* The analysis of document 1 fetched twice in a row.
C22_Witness ==
    /\ RepeatedRead
    /\ api.op = "get_analysis" /\ api.status = 200
    /\ api.body.analysis.document_id = 1
    /\ api.last.body = api.body

StoredIds(comparison) == comparison.document_ids.a

DocumentsKept ==
    /\ Len(documents') >= Len(documents)
    /\ \A j \in DOMAIN documents : documents'[j].id = documents[j].id

OneEntryPerStoredId ==
    (api.op = "get" /\ api.status = 200) =>
        LET ids == StoredIds(api.body.comparison)
            resolving == SelectSeq(ids, LAMBDA d : DocumentExists(d.i))
            entries == api.body.documents
        IN /\ Len(entries) = Len(resolving)
           /\ \A i \in DOMAIN entries :
                 /\ entries[i].document.id = resolving[i].i
                 /\ \E j \in DOMAIN documents : documents[j] = entries[i].document
           /\ Len(entries) = Len(ids)
           /\ \A i \in DOMAIN entries : entries[i].document.id = ids[i].i

\* C28: get_comparison_detail returns one entry per stored id that names
\* an existing Document, in stored order, and leaves out the ids that name
\* none; no operation deletes a Document, so in every reachable state the
\* expansion has exactly one entry per stored id.
C28_DetailHasEntryPerStoredId == []OneEntryPerStoredId /\ [][DocumentsKept]_vars

\* A comparison of <<2, 1, 2>> expanded: three entries, document 2 twice
\* without an analysis and document 1 with its analysis.
C28_Witness ==
    /\ api.op = "get" /\ api.status = 200
    /\ StoredIds(api.body.comparison) = <<JInt(2), JInt(1), JInt(2)>>
    /\ Len(api.body.documents) = 3
    /\ api.body.documents[1].analysis = <<>>
    /\ api.body.documents[2].analysis # <<>>
    /\ api.body.documents[3].document.id = 2

(***************************************************************************)
(* Properties of detect_speakers_simple (specification SpecSpeakers).      *)
(***************************************************************************)
\* The pause before segment k of a list.
Pause(segments, k) == segments[k].start - segments[k - 1].end

\* The number in a "Speaker n" label.
SpeakerNo(label) == CHOOSE n \in 0..(MaxSegments + 2) : SpeakerLabel(n) = label

\* C21: on a non-empty list in which no two consecutive segments are more
\* than 2 seconds apart, whatever the start of the first segment, every
\* segment is labelled "Speaker 1".
C21_NoLongPauseOneSpeaker ==
    (/\ speech.state = "returned"
     /\ speech.segments # <<>>
     /\ \A k \in 2..Len(speech.segments) : ~(Pause(speech.segments, k) > SpeakerGap))
    => \A k \in DOMAIN speech.result : speech.result[k].speaker = "Speaker 1"

\* C27: every segment after the first gets the previous segment's speaker
\* number plus one when its start minus the previous end is strictly more
\* than 2 seconds, and the previous number otherwise (also at exactly 2
\* seconds); numbers never decrease; order, start, end and text of the
\* segments are unchanged.
C27_SpeakerIncrementOnLongPause ==
    speech.state = "returned" =>
        LET in == speech.segments
            out == speech.result
        IN /\ Len(out) = Len(in)
           /\ \A k \in DOMAIN in :
                 /\ out[k].start = in[k].start
                 /\ out[k].end = in[k].end
                 /\ out[k].text = in[k].text
                 /\ \E n \in 1..(Len(in) + 1) : out[k].speaker = SpeakerLabel(n)
           /\ \A k \in 2..Len(in) :
                 /\ SpeakerNo(out[k].speaker) =
                       SpeakerNo(out[k - 1].speaker) +
                           (IF Pause(in, k) > SpeakerGap THEN 1 ELSE 0)
                 /\ SpeakerNo(out[k].speaker) >= SpeakerNo(out[k - 1].speaker)

\* Three segments: a pause of exactly 2 seconds, then one of 3 seconds.
C27_Witness ==
    /\ speech.state = "returned"
    /\ Len(speech.segments) = 3
    /\ Pause(speech.segments, 2) = SpeakerGap
    /\ Pause(speech.segments, 3) = SpeakerGap + 1
    /\ speech.result[2].speaker = speech.result[1].speaker
    /\ speech.result[3].speaker # speech.result[2].speaker

====
